---- MODULE Spec2Model ----
(***************************************************************************)
(* The SNS topic sync adapter of cartography (cartography/intel/aws/sns.py) *)
(* as a state machine over a property graph: AwsSnsTopic nodes, AWSAccount  *)
(* nodes and RESOURCE relationships.                                        *)
(*                                                                          *)
(* Strings whose characters the code inspects (topic ARNs, the numeric      *)
(* attribute strings) are sequences of one-character strings; all other     *)
(* strings are opaque TLA+ strings.  A dict is a function whose DOMAIN is   *)
(* its key set, so "key absent" and "property not set" are representable.   *)
(***************************************************************************)
EXTENDS Integers, Sequences, FiniteSets, TLC

VARIABLES
    \* ---- the graph store
    topics,          \* AwsSnsTopic nodes: internal node id -> property map
    rels,            \* RESOURCE relationships: set of [a, n, props]
    accounts,        \* ids of the AWSAccount nodes present
    version_string,  \* what dbms.components() reports, as numeric segments
    now,             \* the store's timestamp()
    \* ---- the last call made on the store, and the graph before it
    call,
    pre,
    \* ---- transform_sns_topics as a function under test
    t_in,
    t_out,
    \* ---- sync_sns_topics: one record holding the driver's locals
    sync

vars == <<topics, rels, accounts, version_string, now, call, pre, t_in, t_out, sync>>

graphVars == <<topics, rels, accounts, version_string, now>>

(***************************************************************************)
(* Bounds of the model.                                                    *)
(***************************************************************************)
MaxClock == 2        \* store calls per behaviour of Spec
MaxArnLen == 2       \* characters per identifier in SpecTransform
MaxTopics == 2       \* identifiers per transform call in SpecTransform
MaxRegions == 2      \* regions per sync_sns_topics call
MaxRuns == 2         \* sync_sns_topics calls per behaviour of SpecResync
MaxSweeps == 3       \* cleanup_sns calls per behaviour of SpecSweep

(***************************************************************************)
(* Program constants.                                                      *)
(***************************************************************************)
\* "if neo4j_version >= 4.0": the major version from which load/GraphJob are used
ModernMajor == 4
\* "WITH n LIMIT 10000" of the legacy delete, scaled down to 2 nodes so that a
\* stale set larger than the cap is reachable
LegacyDeleteLimit == 2

(***************************************************************************)
(* Generic helpers.                                                        *)
(***************************************************************************)
Min(S) == CHOOSE x \in S : \A y \in S : x <= y

Range(s) == {s[i] : i \in DOMAIN s}

\* dict.update / Cypher "SET n.k = v" for every k of new: new wins, the rest stays
Overwrite(old, new) ==
    [k \in DOMAIN old \cup DOMAIN new |-> IF k \in DOMAIN new THEN new[k] ELSE old[k]]

\* Python truthiness of a str and of an int
TruthyStr(s) == s /= ""
TruthyInt(i) == i /= 0

\* dict.get(k, default)
DictGet(d, k, default) == IF k \in DOMAIN d THEN d[k] ELSE default

EmptyDict == <<>>

(***************************************************************************)
(* The declarative schema: property name -> PropertyRef(name, set_in_kwargs)*)
(***************************************************************************)
PropertyRef(name, set_in_kwargs) == [name |-> name, set_in_kwargs |-> set_in_kwargs]

AwsSnsTopicNodeProperties ==
    [id |-> PropertyRef("TopicArn", FALSE),
     arn |-> PropertyRef("TopicArn", FALSE),
     name |-> PropertyRef("TopicName", FALSE),
     displayname |-> PropertyRef("DisplayName", FALSE),
     owner |-> PropertyRef("Owner", FALSE),
     subscriptionspending |-> PropertyRef("SubscriptionsPending", FALSE),
     subscriptionsconfirmed |-> PropertyRef("SubscriptionsConfirmed", FALSE),
     subscriptionsdeleted |-> PropertyRef("SubscriptionsDeleted", FALSE),
     deliverypolicy |-> PropertyRef("DeliveryPolicy", FALSE),
     effectivedeliverypolicy |-> PropertyRef("EffectiveDeliveryPolicy", FALSE),
     kmsmasterkeyid |-> PropertyRef("KmsMasterKeyId", FALSE),
     region |-> PropertyRef("Region", TRUE),
     lastupdated |-> PropertyRef("lastupdated", TRUE)]

\* the relationship's only property
AwsSnsTopicToAwsAccountRelProperties ==
    [lastupdated |-> PropertyRef("lastupdated", TRUE)]

\* target_node_matcher: AWSAccount.id = kwargs['AWS_ACCOUNT_ID']; rel_label RESOURCE
AwsSnsTopicToAWSAccount ==
    [target_node_label |-> "AWSAccount",
     target_node_matcher |-> [id |-> PropertyRef("AWS_ACCOUNT_ID", TRUE)],
     rel_label |-> "RESOURCE",
     properties |-> AwsSnsTopicToAwsAccountRelProperties]

AwsSnsTopicSchema ==
    [label |-> "AwsSnsTopic",
     properties |-> AwsSnsTopicNodeProperties,
     sub_resource_relationship |-> AwsSnsTopicToAWSAccount]

(***************************************************************************)
(* get_neo4j_version: "3.5.12" -> 3.5.  The version string is its sequence *)
(* of numeric segments; the float major.minor is the pair <<major, minor>>.*)
(***************************************************************************)
get_neo4j_version(vs) == <<vs[1], vs[2]>>

\* neo4j_version >= 4.0
IsModern(neo4j_version) == neo4j_version[1] >= ModernMajor

(***************************************************************************)
(* transform_sns_topics                                                    *)
(***************************************************************************)
\* Split as str.split(sep, 1): cut at the first separator only
SplitFirst(s, sep) ==
    IF \A i \in DOMAIN s : s[i] /= sep
    THEN <<s>>
    ELSE LET i == Min({j \in DOMAIN s : s[j] = sep})
         IN  <<SubSeq(s, 1, i - 1), SubSeq(s, i + 1, Len(s))>>

\* str.split(sep): the segments of s between occurrences of sep
RECURSIVE Split(_, _)
Split(s, sep) ==
    IF \A i \in DOMAIN s : s[i] /= sep
    THEN <<s>>
    ELSE LET i == Min({j \in DOMAIN s : s[j] = sep})
         IN  <<SubSeq(s, 1, i - 1)>> \o Split(SubSeq(s, i + 1, Len(s)), sep)

DigitValue ==
    "0" :> 0 @@ "1" :> 1 @@ "2" :> 2 @@ "3" :> 3 @@ "4" :> 4 @@
    "5" :> 5 @@ "6" :> 6 @@ "7" :> 7 @@ "8" :> 8 @@ "9" :> 9

\* int(s) for a string of decimal digits
RECURSIVE ParseInt(_)
ParseInt(s) ==
    IF Len(s) = 0 THEN 0
    ELSE 10 * ParseInt(SubSeq(s, 1, Len(s) - 1)) + DigitValue[s[Len(s)]]

TransformTopic(topic, attributes) ==
    LET topic_arn == topic["TopicArn"]
        parts == Split(topic_arn, ":")
        topic_name == parts[Len(parts)]
        topic_attrs == DictGet(DictGet(attributes, topic_arn, EmptyDict),
                               "Attributes", EmptyDict)
    IN  [TopicArn |-> topic_arn,
         TopicName |-> topic_name,
         DisplayName |-> DictGet(topic_attrs, "DisplayName", ""),
         Owner |-> DictGet(topic_attrs, "Owner", ""),
         SubscriptionsPending |->
             ParseInt(DictGet(topic_attrs, "SubscriptionsPending", <<"0">>)),
         SubscriptionsConfirmed |->
             ParseInt(DictGet(topic_attrs, "SubscriptionsConfirmed", <<"0">>)),
         SubscriptionsDeleted |->
             ParseInt(DictGet(topic_attrs, "SubscriptionsDeleted", <<"0">>)),
         DeliveryPolicy |-> DictGet(topic_attrs, "DeliveryPolicy", ""),
         EffectiveDeliveryPolicy |->
             DictGet(topic_attrs, "EffectiveDeliveryPolicy", ""),
         KmsMasterKeyId |-> DictGet(topic_attrs, "KmsMasterKeyId", "")]

\* "for topic in topics: ... transformed_topics.append(transformed_topic)"
RECURSIVE TransformLoop(_, _, _)
TransformLoop(tps, attributes, transformed_topics) ==
    IF tps = <<>> THEN transformed_topics
    ELSE TransformLoop(Tail(tps), attributes,
                       Append(transformed_topics, TransformTopic(Head(tps), attributes)))

transform_sns_topics(tps, attributes) == TransformLoop(tps, attributes, <<>>)

(***************************************************************************)
(* The graph store.  g = [topics, rels]; accts is the set of AWSAccount    *)
(* ids; ts is timestamp() of the call.                                     *)
(***************************************************************************)
NodesWithId(tp, id) == {n \in DOMAIN tp : "id" \in DOMAIN tp[n] /\ tp[n]["id"] = id}

FreshNodeId(tp) == Min({n \in 1..(Cardinality(DOMAIN tp) + 1) : n \notin DOMAIN tp})

\* MergeNode as CREATE: a node is made whether or not one has the id
MergeNodeAlwaysCreate(tp, id, node_props, ts) ==
    LET n == FreshNodeId(tp)
        created == Overwrite([id |-> id, firstseen |-> ts], node_props)
    IN  [m \in DOMAIN tp \cup {n} |-> IF m = n THEN created ELSE tp[m]]

\* MERGE (n:AwsSnsTopic {id: $id}) ON CREATE SET n.firstseen = timestamp()
\* SET n.<prop> = $<prop> for every prop of node_props
MergeNode(tp, id, node_props, ts) ==
    LET found == NodesWithId(tp, id)
    IN  IF found = {}
        THEN LET n == FreshNodeId(tp)
                 created == Overwrite([id |-> id, firstseen |-> ts], node_props)
             IN  [m \in DOMAIN tp \cup {n} |-> IF m = n THEN created ELSE tp[m]]
        ELSE [m \in DOMAIN tp |->
                 IF m \in found THEN Overwrite(tp[m], node_props) ELSE tp[m]]

\* MergeRel with firstseen set outside ON CREATE: stamped on every merge
MergeRelRestamp(rl, tp, accts, id, aws_account_id, update_tag, ts) ==
    LET ends == {<<a, n>> \in accts \X NodesWithId(tp, id) : a = aws_account_id}
    IN  {r \in rl : <<r.a, r.n>> \notin ends}
        \cup {[a |-> e[1], n |-> e[2],
               props |-> [firstseen |-> ts, lastupdated |-> update_tag]] : e \in ends}

\* MergeRel with the account merged instead of matched: the relationship is
\* made from aws_account_id whether or not an account node has that id
MergeRelUnmatched(rl, tp, accts, id, aws_account_id, update_tag, ts) ==
    LET ends == {<<aws_account_id, n>> : n \in NodesWithId(tp, id)}
    IN  {r \in rl : <<r.a, r.n>> \notin ends}
        \cup {[a |-> e[1], n |-> e[2],
               props |-> [firstseen |-> ts, lastupdated |-> update_tag]] : e \in ends}

\* MATCH (n:AwsSnsTopic {id: $id}), (a:AWSAccount {id: $aws_account_id})
\* MERGE (a)-[r:RESOURCE]->(n) ON CREATE SET r.firstseen = timestamp()
\* SET r.lastupdated = $update_tag
MergeRel(rl, tp, accts, id, aws_account_id, update_tag, ts) ==
    LET ends == {<<a, n>> \in accts \X NodesWithId(tp, id) : a = aws_account_id}
        has(e) == \E r \in rl : r.a = e[1] /\ r.n = e[2]
        updated == {IF <<r.a, r.n>> \in ends
                    THEN [r EXCEPT !.props = Overwrite(@, [lastupdated |-> update_tag])]
                    ELSE r : r \in rl}
        created == {[a |-> e[1], n |-> e[2],
                     props |-> [firstseen |-> ts, lastupdated |-> update_tag]] :
                    e \in {x \in ends : ~has(x)}}
    IN  updated \cup created

\* DETACH DELETE of the nodes in dead
DetachDelete(g, dead) ==
    [topics |-> [n \in DOMAIN g.topics \ dead |-> g.topics[n]],
     rels |-> {r \in g.rels : r.n \notin dead}]

\* **kwargs of load_sns_topics' call of compatible_load
LoadKwargs(region, aws_account_id, update_tag) ==
    [lastupdated |-> update_tag, Region |-> region, AWS_ACCOUNT_ID |-> aws_account_id]

(***************************************************************************)
(* compatible_load, the branch for Neo4j below 4.0                         *)
(***************************************************************************)
\* PropertyMap without the set_in_kwargs arm: only data-sourced properties
PropertyMapDataOnly(properties, kwargs) ==
    [p \in {q \in DOMAIN properties : ~properties[q].set_in_kwargs}
       |-> properties[p].name]

\* property_map: every data-sourced property, and every kwargs-sourced one
\* whose name was passed
PropertyMap(properties, kwargs) ==
    [p \in {q \in DOMAIN properties :
               properties[q].set_in_kwargs => properties[q].name \in DOMAIN kwargs}
       |-> properties[p].name]

\* NodeProps without the "if src_name in kwargs" arm: only the item is read
NodePropsItemOnly(property_map, item, kwargs) ==
    [p \in {q \in DOMAIN property_map : property_map[q] \in DOMAIN item}
       |-> item[property_map[p]]]

\* node_props of one item: kwargs first, then the item; a key in neither is left out
NodeProps(property_map, item, kwargs) ==
    [p \in {q \in DOMAIN property_map :
               property_map[q] \in DOMAIN kwargs \/ property_map[q] \in DOMAIN item}
       |-> IF property_map[p] \in DOMAIN kwargs
           THEN kwargs[property_map[p]]
           ELSE item[property_map[p]]]

\* "if aws_account_id and update_tag"
LegacyRelGuard(aws_account_id, update_tag) ==
    TruthyStr(aws_account_id) /\ TruthyInt(update_tag)

\* the body of "for item in data"
LegacyLoadItem(g, accts, item, kwargs, ts) ==
    LET node_props == NodeProps(PropertyMap(AwsSnsTopicSchema.properties, kwargs),
                                item, kwargs)
        tp == MergeNode(g.topics, node_props["id"], node_props, ts)
        aws_account_id == kwargs["AWS_ACCOUNT_ID"]
        update_tag == kwargs["lastupdated"]
    IN  [topics |-> tp,
         rels |-> IF LegacyRelGuard(aws_account_id, update_tag)
                  THEN MergeRel(g.rels, tp, accts, node_props["id"],
                                aws_account_id, update_tag, ts)
                  ELSE g.rels]

RECURSIVE LegacyLoad(_, _, _, _, _)
LegacyLoad(g, accts, data, kwargs, ts) ==
    IF data = <<>> THEN g
    ELSE LegacyLoad(LegacyLoadItem(g, accts, Head(data), kwargs, ts),
                    accts, Tail(data), kwargs, ts)


(***************************************************************************)
(* cartography.client.core.tx.load, the branch for Neo4j 4.0 and above:    *)
(* one MERGE per record keyed by the schema's id, every property of the    *)
(* schema overwritten (a key the record lacks is null, which unsets the    *)
(* property), then the sub-resource relationship merged to the matching    *)
(* account node, if there is one.                                          *)
(***************************************************************************)
SchemaNodeProps(properties, item, kwargs) ==
    [p \in {q \in DOMAIN properties :
               properties[q].name \in
                   DOMAIN (IF properties[q].set_in_kwargs THEN kwargs ELSE item)}
       |-> IF properties[p].set_in_kwargs
           THEN kwargs[properties[p].name]
           ELSE item[properties[p].name]]

\* SET n.k = null for every k of unset, on the nodes with this id
UnsetProps(tp, id, unset) ==
    [m \in DOMAIN tp |->
        IF m \in NodesWithId(tp, id)
        THEN [k \in DOMAIN tp[m] \ unset |-> tp[m][k]]
        ELSE tp[m]]

SchemaLoadItem(g, accts, schema, item, kwargs, ts) ==
    LET node_props == SchemaNodeProps(schema.properties, item, kwargs)
        id == node_props["id"]
        tp == UnsetProps(MergeNode(g.topics, id, node_props, ts), id,
                         DOMAIN schema.properties \ DOMAIN node_props)
        matcher == schema.sub_resource_relationship.target_node_matcher
    IN  [topics |-> tp,
         rels |-> MergeRel(g.rels, tp, accts, id, kwargs[matcher.id.name],
                           kwargs["lastupdated"], ts)]

RECURSIVE load(_, _, _, _, _, _)
load(g, accts, schema, data, kwargs, ts) ==
    IF data = <<>> THEN g
    ELSE load(SchemaLoadItem(g, accts, schema, Head(data), kwargs, ts),
              accts, schema, Tail(data), kwargs, ts)

(***************************************************************************)
(* compatible_load and load_sns_topics                                     *)
(***************************************************************************)
compatible_load(g, accts, vs, data, kwargs, ts) ==
    IF IsModern(get_neo4j_version(vs))
    THEN load(g, accts, AwsSnsTopicSchema, data, kwargs, ts)
    ELSE LegacyLoad(g, accts, data, kwargs, ts)

load_sns_topics(g, accts, vs, data, region, aws_account_id, update_tag, ts) ==
    compatible_load(g, accts, vs, data,
                    LoadKwargs(region, aws_account_id, update_tag), ts)

(***************************************************************************)
(* cleanup_sns                                                             *)
(***************************************************************************)
\* StaleNodes with = for <>: the nodes that carry the tag
StaleNodesSameTag(tp, update_tag) ==
    {n \in DOMAIN tp : "lastupdated" \in DOMAIN tp[n] /\ tp[n]["lastupdated"] = update_tag}

\* MATCH (n:AwsSnsTopic) WHERE n.lastupdated <> $update_tag
StaleNodes(tp, update_tag) ==
    {n \in DOMAIN tp : "lastupdated" \in DOMAIN tp[n] /\ tp[n]["lastupdated"] /= update_tag}

\* LimitChoices without the LIMIT: all of the matches
LimitChoicesUncapped(S, limit) == {S}

\* WITH n LIMIT 10000: any LegacyDeleteLimit of the matches, all when fewer
LimitChoices(S, limit) ==
    IF Cardinality(S) <= limit THEN {S}
    ELSE {D \in SUBSET S : Cardinality(D) = limit}

\* the graphs the direct DETACH DELETE query can leave
LegacyCleanup(g, common_job_parameters) ==
    LET update_tag == common_job_parameters["UPDATE_TAG"]
    IN  {DetachDelete(g, dead) :
            dead \in LimitChoices(StaleNodes(g.topics, update_tag), LegacyDeleteLimit)}

\* GraphJob.from_node_schema(...).run(): delete every node of the label that
\* does not carry the run's tag
GraphJobCleanup(g, common_job_parameters) ==
    {DetachDelete(g, StaleNodes(g.topics, common_job_parameters["UPDATE_TAG"]))}

\* cleanup_sns without the WHERE: every topic node is deleted
cleanup_sns_unconditional(g, vs, common_job_parameters) ==
    {DetachDelete(g, DOMAIN g.topics)}

cleanup_sns(g, vs, common_job_parameters) ==
    IF IsModern(get_neo4j_version(vs))
    THEN GraphJobCleanup(g, common_job_parameters)
    ELSE LegacyCleanup(g, common_job_parameters)

(***************************************************************************)
(* Inputs.                                                                 *)
(***************************************************************************)
\* identifiers: odd ones are "<prefix>:<name>", even ones have no separator
\* (the 'invalid-arn' of the integration test)
Letters == <<"t", "u", "v", "w", "x", "y">>

Arn(i) == IF i % 2 = 1 THEN <<"a", ":", Letters[i]>> ELSE <<"z", Letters[i]>>

AccountIds == {"111", "222"}

UpdateTags == {0, 1, 2}

VersionStrings == {<<3, 5, 12>>, <<4, 4, 0>>}

\* what get_topic_attributes returns for a topic
FullAttributes(arn) ==
    [Attributes |->
        [TopicArn |-> arn,
         DisplayName |-> "Test Topic",
         Owner |-> "123456789012",
         SubscriptionsPending |-> <<"1">>,
         SubscriptionsConfirmed |-> <<"0", "5">>,
         SubscriptionsDeleted |-> <<"1", "0">>,
         DeliveryPolicy |-> "{\"http\": {}}",
         EffectiveDeliveryPolicy |-> "{\"http\": {\"defaultHealthyRetryPolicy\": {}}}",
         KmsMasterKeyId |-> "arn:aws:kms:key/1234abcd"]]

PartialAttributes(arn) ==
    [Attributes |-> [TopicArn |-> arn, SubscriptionsConfirmed |-> <<"2">>]]

\* sequences over S of length at most n
SeqsUpTo(S, n) == UNION {[1..k -> S] : k \in 0..n}

\* a listing: a sequence over S that names nothing twice
Listings(S) ==
    {q \in SeqsUpTo(S, Cardinality(S)) : \A i, j \in DOMAIN q : q[i] = q[j] => i = j}

\* a listing in the order of <<Arn(1), Arn(2), ...>>
OrderedListings(k) ==
    {q \in Listings({Arn(i) : i \in 1..k}) :
        \A i, j \in DOMAIN q : i < j =>
            \E x, y \in 1..k : x < y /\ q[i] = Arn(x) /\ q[j] = Arn(y)}

RawTopics(q) == [i \in DOMAIN q |-> [TopicArn |-> q[i]]]

\* records that carry only the identifier and a Region key, as the one
\* test_error_handling passes
SparseRecords(q) == [i \in DOMAIN q |-> [TopicArn |-> q[i], Region |-> "eu-west-1"]]

(***************************************************************************)
(* Spec: calls of load_sns_topics and cleanup_sns on one store, in any     *)
(* order, for the account and region below.                                *)
(***************************************************************************)
SpecArns == {Arn(1), Arn(2)}

SpecRegions == {"us-east-1"}

SpecAccounts == {"111"}

\* the record lists load_sns_topics is called with: outputs of
\* transform_sns_topics (every topic with its full attributes, or none
\* fetched), and lists of sparse records
TransformedData ==
    {transform_sns_topics(RawTopics(q), attributes) :
        q \in OrderedListings(2),
        attributes \in {EmptyDict, [a \in SpecArns |-> FullAttributes(a)]}}

SparseData == {SparseRecords(q) : q \in OrderedListings(2) \ {<<>>}}

Graph == [topics |-> topics, rels |-> rels]

NoCall == [op |-> "none"]

Idle ==
    /\ t_in = NoCall
    /\ t_out = <<>>
    /\ sync = NoCall

Init ==
    /\ topics = <<>>
    /\ rels = {}
    /\ accounts \in SUBSET AccountIds
    /\ version_string \in VersionStrings
    /\ now = 0
    /\ call = NoCall
    /\ pre = [topics |-> <<>>, rels |-> {}]
    /\ Idle

LoadCall(data, region, aws_account_id, update_tag, transformed) ==
    [op |-> "load", data |-> data, region |-> region,
     aws_account_id |-> aws_account_id, update_tag |-> update_tag,
     transformed |-> transformed]

LoadSnsTopics(data, region, aws_account_id, update_tag, transformed) ==
    /\ now < MaxClock
    /\ LET g == load_sns_topics(Graph, accounts, version_string, data, region,
                                aws_account_id, update_tag, now)
       IN  /\ topics' = g.topics
           /\ rels' = g.rels
    /\ now' = now + 1
    /\ LET c == LoadCall(data, region, aws_account_id, update_tag, transformed)
       IN  call' = [args |-> c, op |-> "load", at |-> now,
                    repeated |-> (call.op = "load" /\ call.args = c)]
    /\ pre' = Graph
    /\ UNCHANGED <<accounts, version_string, t_in, t_out, sync>>

\* load_sns_topics on the output of transform_sns_topics
LoadTransformed ==
    \E data \in TransformedData, region \in SpecRegions,
       aws_account_id \in SpecAccounts, update_tag \in UpdateTags :
        LoadSnsTopics(data, region, aws_account_id, update_tag, TRUE)

\* load_sns_topics on records that omit the optional fields
LoadSparse ==
    \E data \in SparseData, region \in SpecRegions,
       aws_account_id \in SpecAccounts, update_tag \in UpdateTags :
        LoadSnsTopics(data, region, aws_account_id, update_tag, FALSE)

CleanupSns ==
    /\ now < MaxClock
    /\ \E update_tag \in UpdateTags, aws_id \in SpecAccounts :
        LET params == [UPDATE_TAG |-> update_tag, AWS_ID |-> aws_id]
        IN  /\ \E g \in cleanup_sns(Graph, version_string, params) :
                /\ topics' = g.topics
                /\ rels' = g.rels
            /\ call' = [args |-> params, op |-> "cleanup", at |-> now,
                        repeated |-> FALSE]
    /\ now' = now + 1
    /\ pre' = Graph
    /\ UNCHANGED <<accounts, version_string, t_in, t_out, sync>>

Next == LoadTransformed \/ LoadSparse \/ CleanupSns

Spec == Init /\ [][Next]_vars

(***************************************************************************)
(* Claims about load_sns_topics and cleanup_sns, under Spec.               *)
(***************************************************************************)
Loaded == call.op = "load"

IsLegacy == ~IsModern(get_neo4j_version(version_string))

\* node n has property k, with value v
HasProp(tp, n, k, v) == k \in DOMAIN tp[n] /\ tp[n][k] = v

\* node n carries every field of the transformed record rec
CarriesRecord(tp, n, rec) ==
    /\ HasProp(tp, n, "id", rec["TopicArn"])
    /\ HasProp(tp, n, "arn", rec["TopicArn"])
    /\ HasProp(tp, n, "name", rec["TopicName"])
    /\ HasProp(tp, n, "displayname", rec["DisplayName"])
    /\ HasProp(tp, n, "owner", rec["Owner"])
    /\ HasProp(tp, n, "subscriptionspending", rec["SubscriptionsPending"])
    /\ HasProp(tp, n, "subscriptionsconfirmed", rec["SubscriptionsConfirmed"])
    /\ HasProp(tp, n, "subscriptionsdeleted", rec["SubscriptionsDeleted"])
    /\ HasProp(tp, n, "deliverypolicy", rec["DeliveryPolicy"])
    /\ HasProp(tp, n, "effectivedeliverypolicy", rec["EffectiveDeliveryPolicy"])
    /\ HasProp(tp, n, "kmsmasterkeyid", rec["KmsMasterKeyId"])

\* C1: after load_sns_topics on a list of transformed records there is, for
\* every record, a topic node keyed by the record's identifier that carries
\* all of the record's fields, the region of the call and lastupdated =
\* the sync tag of the call, whatever the graph held before.
C1_UpsertNodePostcondition ==
    (Loaded /\ call.args.transformed) =>
        \A i \in DOMAIN call.args.data :
            \E n \in DOMAIN topics :
                /\ CarriesRecord(topics, n, call.args.data[i])
                /\ HasProp(topics, n, "region", call.args.region)
                /\ HasProp(topics, n, "lastupdated", call.args.update_tag)

\* a load of two transformed records over a graph that already held one of
\* them with another display name and another tag
C1_Witness ==
    /\ Loaded /\ call.args.transformed
    /\ Len(call.args.data) = 2
    /\ \E n \in DOMAIN pre.topics, i \in DOMAIN call.args.data :
        /\ pre.topics[n]["id"] = call.args.data[i]["TopicArn"]
        /\ "displayname" \in DOMAIN pre.topics[n]
        /\ pre.topics[n]["displayname"] /= call.args.data[i]["DisplayName"]
        /\ pre.topics[n]["lastupdated"] /= call.args.update_tag

\* C2: after load_sns_topics for an account whose node exists there is, for
\* every record, a RESOURCE relationship from that account node to the
\* record's topic node whose lastupdated is the sync tag of the call, for
\* every integer sync tag.
C2_UpsertEdgePostcondition ==
    (Loaded /\ call.args.aws_account_id \in accounts) =>
        \A i \in DOMAIN call.args.data :
            \E n \in NodesWithId(topics, call.args.data[i]["TopicArn"]) :
                \E r \in rels :
                    /\ r.a = call.args.aws_account_id
                    /\ r.n = n
                    /\ r.props["lastupdated"] = call.args.update_tag

\* C11: when no account node has the account id of the call, load_sns_topics
\* still leaves a node for every record, with the region and the tag of the
\* call, makes no relationship and no account node; on both version branches.
C11_MissingAccountNoEdge ==
    (Loaded /\ call.args.aws_account_id \notin accounts) =>
        /\ \A i \in DOMAIN call.args.data :
            \E n \in NodesWithId(topics, call.args.data[i]["TopicArn"]) :
                /\ HasProp(topics, n, "region", call.args.region)
                /\ HasProp(topics, n, "lastupdated", call.args.update_tag)
        /\ rels = pre.rels
        /\ \A r \in rels : r.a \in accounts /\ r.a /= call.args.aws_account_id

\* a load of two records with a non-zero tag for an account that has no
\* node, over a graph that held one of the records already
C11_Witness ==
    /\ Loaded /\ call.args.aws_account_id \notin accounts
    /\ call.args.update_tag /= 0
    /\ Len(call.args.data) = 2
    /\ Cardinality(DOMAIN pre.topics) = 1
    /\ Cardinality(DOMAIN topics) = 2
    /\ rels = {}

\* C13: load_sns_topics on records that carry only an identifier, well-formed
\* or not, leaves for each of them one node keyed by that identifier whose
\* region and lastupdated are those of the call.
C13_SparseRecordLoaded ==
    (Loaded /\ ~call.args.transformed) =>
        \A i \in DOMAIN call.args.data :
            /\ Cardinality(NodesWithId(topics, call.args.data[i]["TopicArn"])) = 1
            /\ \A n \in NodesWithId(topics, call.args.data[i]["TopicArn"]) :
                /\ HasProp(topics, n, "arn", call.args.data[i]["TopicArn"])
                /\ HasProp(topics, n, "region", call.args.region)
                /\ HasProp(topics, n, "lastupdated", call.args.update_tag)

\* a load, into an empty graph, of one sparse record whose identifier has no
\* ':' and whose own Region key differs from the region of the call
C13_Witness ==
    /\ Loaded /\ ~call.args.transformed
    /\ pre.topics = <<>>
    /\ call.args.data = SparseRecords(<<Arn(2)>>)
    /\ call.args.data[1]["Region"] /= call.args.region
    /\ \E n \in DOMAIN topics : "name" \notin DOMAIN topics[n]

\* what a query of the graph observes: every node's properties but its
\* creation timestamp, and every relationship's ends and freshness tag
Observable(g) ==
    [nodes |-> {[k \in DOMAIN g.topics[n] \ {"firstseen"} |-> g.topics[n][k]] :
                   n \in DOMAIN g.topics},
     edges |-> {<<r.a, g.topics[r.n]["id"], r.props["lastupdated"]>> : r \in g.rels}]

\* C3: from the same graph and the same arguments the branch for Neo4j
\* below 4.0 and the branch for 4.0 and above leave the same node
\* properties and the same relationships with the same freshness tag.
C3_VersionBranchEquivalence ==
    Loaded =>
        LET kwargs == LoadKwargs(call.args.region, call.args.aws_account_id,
                                 call.args.update_tag)
        IN  Observable(LegacyLoad(pre, accounts, call.args.data, kwargs, call.at))
            = Observable(load(pre, accounts, AwsSnsTopicSchema, call.args.data,
                              kwargs, call.at))

\* C4: a second load_sns_topics with the arguments of the call before it
\* leaves the nodes (firstseen included) and the relationships as the first
\* call left them.
C4_UpsertIdempotent ==
    (Loaded /\ call.repeated) => Graph = pre

\* the same non-empty load twice in a row, for an account that has a node
C4_Witness ==
    /\ Loaded /\ call.repeated
    /\ call.args.data /= <<>>
    /\ call.args.aws_account_id \in accounts
    /\ rels /= {}

\* C5: there is at most one topic node per identifier after any calls; a
\* load of identifiers that already have a node adds no node, and each such
\* node then carries the values and the tag of this call.
C5_OneNodePerIdentifier ==
    /\ \A n, m \in DOMAIN topics : topics[n]["id"] = topics[m]["id"] => n = m
    /\ Loaded =>
        LET ids == {call.args.data[i]["TopicArn"] : i \in DOMAIN call.args.data}
            old == {pre.topics[n]["id"] : n \in DOMAIN pre.topics}
        IN  /\ Cardinality(DOMAIN topics) = Cardinality(old \cup ids)
            /\ \A i \in DOMAIN call.args.data :
                \A n \in NodesWithId(topics, call.args.data[i]["TopicArn"]) :
                    /\ HasProp(topics, n, "lastupdated", call.args.update_tag)
                    /\ \A p \in DOMAIN AwsSnsTopicNodeProperties :
                        LET src == AwsSnsTopicNodeProperties[p]
                        IN  (~src.set_in_kwargs /\ src.name \in DOMAIN call.args.data[i])
                                => HasProp(topics, n, p, call.args.data[i][src.name])

\* a load with tag T2 of an identifier whose node carried tag T1 /= T2 and
\* other values
C5_Witness ==
    /\ Loaded
    /\ \E n \in DOMAIN pre.topics, i \in DOMAIN call.args.data :
        /\ pre.topics[n]["id"] = call.args.data[i]["TopicArn"]
        /\ pre.topics[n]["lastupdated"] /= call.args.update_tag
        /\ "DisplayName" \in DOMAIN call.args.data[i]
        /\ "displayname" \in DOMAIN pre.topics[n]
        /\ pre.topics[n]["displayname"] /= call.args.data[i]["DisplayName"]

(***************************************************************************)
(* SpecTransform: transform_sns_topics applied to a list of raw topics and *)
(* an attribute map.                                                       *)
(***************************************************************************)
\* identifiers of 1..MaxArnLen characters, ':' among them
ArnStrings == UNION {[1..k -> {"a", ":"}] : k \in 1..MaxArnLen}

\* a GetTopicAttributes response without the Attributes key
BareResponse == [ResponseMetadata |-> "200"]

\* a response whose only counter is SubscriptionsPending
PendingAttributes(arn) ==
    [Attributes |-> [TopicArn |-> arn, DisplayName |-> "Pending",
                     SubscriptionsPending |-> <<"0", "7">>]]

Responses(arn) ==
    {FullAttributes(arn), PartialAttributes(arn), PendingAttributes(arn), BareResponse}

\* attribute maps over the identifiers of a listing: any subset of them has an
\* entry, each entry any of the responses
AttributeMapsFor(S) ==
    UNION {{f \in [D -> UNION {Responses(a) : a \in D}] :
               \A a \in D : f[a] \in Responses(a)} : D \in SUBSET S}

InitTransform ==
    /\ \E tps \in SeqsUpTo(ArnStrings, MaxTopics) :
        \E attributes \in AttributeMapsFor(Range(tps)) :
            t_in = [op |-> "transform", topics |-> RawTopics(tps),
                    attributes |-> attributes, returned |-> FALSE]
    /\ t_out = <<>>
    /\ topics = <<>>
    /\ rels = {}
    /\ accounts = {}
    /\ version_string = <<3, 5, 12>>
    /\ now = 0
    /\ call = NoCall
    /\ pre = [topics |-> <<>>, rels |-> {}]
    /\ sync = NoCall

TransformSnsTopics ==
    /\ ~t_in.returned
    /\ t_out' = transform_sns_topics(t_in.topics, t_in.attributes)
    /\ t_in' = [t_in EXCEPT !.returned = TRUE]
    /\ UNCHANGED <<graphVars, call, pre, sync>>

NextTransform == TransformSnsTopics

SpecTransform == InitTransform /\ [][NextTransform]_vars

\* the part of s after its last ':' (all of s when it has none)
AfterLastColon(s) ==
    LET colons == {i \in DOMAIN s : s[i] = ":"}
    IN  IF colons = {} THEN s
        ELSE SubSeq(s, (CHOOSE i \in colons : \A j \in colons : j <= i) + 1, Len(s))

\* the number a string of decimal digits denotes
RECURSIVE PowerOfTen(_)
PowerOfTen(n) == IF n = 0 THEN 1 ELSE 10 * PowerOfTen(n - 1)

RECURSIVE DecimalFrom(_, _)
DecimalFrom(s, i) ==
    IF i > Len(s) THEN 0
    ELSE DigitValue[s[i]] * PowerOfTen(Len(s) - i) + DecimalFrom(s, i + 1)

\* the Attributes of the identifier's entry, none when it has no entry
AttributesOf(attributes, arn) ==
    IF arn \in DOMAIN attributes /\ "Attributes" \in DOMAIN attributes[arn]
    THEN attributes[arn]["Attributes"]
    ELSE EmptyDict

StringFields ==
    {"DisplayName", "Owner", "DeliveryPolicy", "EffectiveDeliveryPolicy", "KmsMasterKeyId"}

CounterFields == {"SubscriptionsPending", "SubscriptionsConfirmed", "SubscriptionsDeleted"}

\* C7: transform_sns_topics returns one record per input identifier, in
\* input order; the short name is the part of the identifier after its last
\* ':'; a string field is the attribute when present and "" when absent; a
\* counter is the number its attribute string denotes when present and 0
\* when absent.
C7_TransformResult ==
    t_in.returned =>
        /\ Len(t_out) = Len(t_in.topics)
        /\ \A i \in DOMAIN t_in.topics :
            LET arn == t_in.topics[i]["TopicArn"]
                attrs == AttributesOf(t_in.attributes, arn)
            IN  /\ DOMAIN t_out[i] = {"TopicArn", "TopicName"} \cup StringFields \cup CounterFields
                /\ t_out[i]["TopicArn"] = arn
                /\ t_out[i]["TopicName"] = AfterLastColon(arn)
                /\ \A k \in StringFields :
                    t_out[i][k] = (IF k \in DOMAIN attrs THEN attrs[k] ELSE "")
                /\ \A k \in CounterFields :
                    t_out[i][k] = (IF k \in DOMAIN attrs THEN DecimalFrom(attrs[k], 1) ELSE 0)

\* two identifiers, one of them with two ':', one with an attribute entry
\* whose counter has a leading zero, one with no entry
C7_Witness ==
    /\ t_in.op = "transform" /\ t_in.returned
    /\ Len(t_out) = 2
    /\ t_out[1]["TopicArn"] /= t_out[2]["TopicArn"]
    /\ \E i \in 1..2 :
        /\ t_out[i]["TopicArn"] = <<":", ":">>
        /\ t_out[i]["TopicName"] = <<>>
    /\ \E i \in 1..2 : t_out[i]["SubscriptionsPending"] = 7
    /\ \E i \in 1..2 :
        /\ t_in.topics[i]["TopicArn"] \notin DOMAIN t_in.attributes
        /\ t_out[i]["DisplayName"] = ""
        /\ t_out[i]["SubscriptionsConfirmed"] = 0

(***************************************************************************)
(* SpecRecon: load_sns_topics of a set S1 with tag T1, load_sns_topics of  *)
(* a disjoint set S2 with tag T2 /= T1, then cleanup_sns against T2.       *)
(***************************************************************************)
\* one identifier more than the legacy delete takes per call
ReconArns == LegacyDeleteLimit + 1

ReconData(q) ==
    {transform_sns_topics(RawTopics(q), attributes) :
        attributes \in {EmptyDict, [a \in Range(q) |-> FullAttributes(a)]}}

ReconLoad(q, update_tag) ==
    \E data \in ReconData(q) :
        LET g == load_sns_topics(Graph, accounts, version_string, data,
                                 "us-east-1", "111", update_tag, now)
        IN  /\ topics' = g.topics
            /\ rels' = g.rels
            /\ now' = now + 1
            /\ pre' = Graph
            /\ UNCHANGED <<accounts, version_string, t_in, t_out, sync>>

ReconLoadFirst ==
    /\ call.op = "none"
    /\ \E q \in OrderedListings(ReconArns), update_tag \in UpdateTags :
        /\ ReconLoad(q, update_tag)
        /\ call' = [op |-> "first", S1 |-> Range(q), T1 |-> update_tag]

ReconLoadSecond ==
    /\ call.op = "first"
    /\ \E q \in OrderedListings(ReconArns), update_tag \in UpdateTags \ {call.T1} :
        /\ Range(q) \cap call.S1 = {}
        /\ ReconLoad(q, update_tag)
        /\ call' = [op |-> "second", S1 |-> call.S1, T1 |-> call.T1,
                    S2 |-> Range(q), T2 |-> update_tag]

ReconCleanup ==
    /\ call.op = "second"
    /\ \E g \in cleanup_sns(Graph, version_string,
                            [UPDATE_TAG |-> call.T2, AWS_ID |-> "111"]) :
        /\ topics' = g.topics
        /\ rels' = g.rels
    /\ now' = now + 1
    /\ pre' = Graph
    /\ call' = [call EXCEPT !.op = "cleaned"]
    /\ UNCHANGED <<accounts, version_string, t_in, t_out, sync>>

NextRecon == ReconLoadFirst \/ ReconLoadSecond \/ ReconCleanup

SpecRecon == Init /\ [][NextRecon]_vars

\* C6: after loading S1 with T1, loading a disjoint S2 with T2 /= T1 and one
\* cleanup_sns with UPDATE_TAG = T2, no identifier of S1 has a node, every
\* identifier of S2 has one, and no topic node carries a tag other than T2.
C6_ReconcileExact ==
    call.op = "cleaned" =>
        /\ \A a \in call.S1 : NodesWithId(topics, a) = {}
        /\ \A a \in call.S2 :
            \E n \in NodesWithId(topics, a) : HasProp(topics, n, "lastupdated", call.T2)
        /\ \A n \in DOMAIN topics : HasProp(topics, n, "lastupdated", call.T2)

(***************************************************************************)
(* SpecOwners: calls of load_sns_topics for either of two accounts, both   *)
(* with a node, with non-zero tags, and calls of cleanup_sns.              *)
(***************************************************************************)
OwnerTags == UpdateTags \ {0}

InitOwners ==
    /\ topics = <<>>
    /\ rels = {}
    /\ accounts = AccountIds
    /\ version_string \in VersionStrings
    /\ now = 0
    /\ call = NoCall
    /\ pre = [topics |-> <<>>, rels |-> {}]
    /\ Idle

\* load_sns_topics for any of the accounts
LoadForAccount ==
    \E data \in TransformedData, region \in SpecRegions,
       aws_account_id \in AccountIds, update_tag \in OwnerTags :
        LoadSnsTopics(data, region, aws_account_id, update_tag, TRUE)

NextOwners == LoadForAccount \/ CleanupSns

SpecOwners == InitOwners /\ [][NextOwners]_vars

\* the accounts with a RESOURCE relationship to node n
OwnersOf(n) == {r.a : r \in {x \in rels : x.n = n}}

\* C12: in every state reached by loads, for any account ids, and cleanups,
\* every topic node has a RESOURCE relationship from exactly one account node.
C12_SingleOwnerEdge ==
    \A n \in DOMAIN topics : Cardinality(OwnersOf(n)) = 1

\* the accounts with a RESOURCE relationship to node n before the last call
OwnersBefore(n) == {r.a : r \in {x \in pre.rels : x.n = n}}

\* C18: cleanup_sns with AWS_ID = A leaves every topic node that is attached
\* to another account and not to A, and its relationships, as they were,
\* whatever the node's tag; on both version branches.
C18_CleanupScopedToAccount ==
    call.op = "cleanup" =>
        \A n \in DOMAIN pre.topics :
            (OwnersBefore(n) /= {} /\ call.args.AWS_ID \notin OwnersBefore(n)) =>
                /\ n \in DOMAIN topics
                /\ topics[n] = pre.topics[n]
                /\ {r \in rels : r.n = n} = {r \in pre.rels : r.n = n}

(***************************************************************************)
(* sync_sns_topics.  The driver's locals are the fields of sync; the       *)
(* fields events, listings, failed and before record what the run did.     *)
(***************************************************************************)
SyncRegionNames == <<"us-east-1", "us-west-1", "eu-west-1">>

\* the topics of the j-th region, in the order list_topics delivers them
RegionListings(j) ==
    {<<>>, <<Arn(2 * j - 1)>>, <<Arn(2 * j)>>, <<Arn(2 * j - 1), Arn(2 * j)>>}

None == [IsNone |-> TRUE]

\* "if attrs:"
TruthyAttrs(attrs) == attrs /= None /\ attrs /= EmptyDict

\* get_topic_attributes with the try/except removed: the client's error propagates
get_topic_attributes_propagating(client_result) ==
    IF client_result.raises
    THEN [raised |-> TRUE, value |-> None]
    ELSE [raised |-> FALSE, value |-> client_result.response]

\* get_topic_attributes: the client's response, None when the client raises
get_topic_attributes(client_result) ==
    IF client_result.raises
    THEN [raised |-> FALSE, value |-> None]
    ELSE [raised |-> FALSE, value |-> client_result.response]

\* what client.get_topic_attributes(TopicArn=arn) can do
ClientResults(arn) ==
    {[raises |-> TRUE], [raises |-> FALSE, response |-> FullAttributes(arn)]}

\* the loop "for region in regions" left with every region done: cleanup on
\* every pass
AfterLoadCleanupInLoop(ri, regions) == "cleanup"

\* where the driver goes after the load of region ri
AfterLoad(ri, regions) == IF ri < Len(regions) THEN "list" ELSE "cleanup"

SyncEntry(regions, current_aws_account_id, update_tag, common_job_parameters, run, before, synced) ==
    [op |-> "sync",
     pc |-> IF regions = <<>> THEN "cleanup" ELSE "list",
     run |-> run,
     regions |-> regions,
     current_aws_account_id |-> current_aws_account_id,
     update_tag |-> update_tag,
     common_job_parameters |-> common_job_parameters,
     ri |-> 1,
     topics |-> <<>>,
     ti |-> 1,
     topic_attributes |-> EmptyDict,
     transformed_topics |-> <<>>,
     synced |-> synced,
     events |-> <<>>,
     listings |-> <<>>,
     failed |-> {},
     before |-> before,
     raised_by |-> "nothing"]

Event(op, region) == <<op, region>>

SyncRegion == sync.regions[sync.ri]

\* the store as a sync call finds it
InitStore(accts) ==
    /\ topics = <<>>
    /\ rels = {}
    /\ accounts \in accts
    /\ version_string \in VersionStrings
    /\ now = 0
    /\ call = NoCall
    /\ pre = [topics |-> <<>>, rels |-> {}]
    /\ t_in = NoCall
    /\ t_out = <<>>

InitSync ==
    /\ InitStore({{"111"}})
    /\ \E k \in 0..MaxRegions, update_tag \in {0, 1} :
        \E job_tag \in {update_tag, update_tag + 1} :
            sync = SyncEntry(SubSeq(SyncRegionNames, 1, k), "111", update_tag,
                             [UPDATE_TAG |-> job_tag, AWS_ID |-> "111"],
                             1, {}, <<>>)

\* topics = get_sns_topics(boto3_session, region)
SyncGetSnsTopics ==
    /\ sync.op = "sync" /\ sync.pc = "list"
    /\ \E q \in RegionListings(sync.ri) :
        sync' = [sync EXCEPT !.topics = RawTopics(q),
                             !.topic_attributes = EmptyDict,
                             !.ti = 1,
                             !.pc = "fetch",
                             !.events = Append(@, Event("list", SyncRegion)),
                             !.listings = Append(@, q)]
    /\ UNCHANGED <<graphVars, call, pre, t_in, t_out>>

\* the paginator raises: nothing in sync_sns_topics catches it
SyncGetSnsTopicsRaises ==
    /\ sync.op = "sync" /\ sync.pc = "list"
    /\ sync' = [sync EXCEPT !.pc = "raised", !.raised_by = "get_sns_topics"]
    /\ UNCHANGED <<graphVars, call, pre, t_in, t_out>>

\* attrs = get_topic_attributes(...); if attrs: topic_attributes[topic_arn] = attrs
SyncGetTopicAttributes ==
    /\ sync.op = "sync" /\ sync.pc = "fetch" /\ sync.ti <= Len(sync.topics)
    /\ "TopicArn" \in DOMAIN sync.topics[sync.ti]
    /\ LET topic_arn == sync.topics[sync.ti]["TopicArn"]
       IN  \E client_result \in ClientResults(topic_arn) :
            LET got == get_topic_attributes(client_result)
                attrs == got.value
            IN  IF got.raised
                THEN sync' = [sync EXCEPT !.pc = "raised",
                                          !.raised_by = "get_topic_attributes"]
                ELSE sync' = [sync EXCEPT
                        !.topic_attributes =
                            IF TruthyAttrs(attrs)
                            THEN Overwrite(@, [a \in {topic_arn} |-> attrs])
                            ELSE @,
                        !.ti = @ + 1,
                        !.events = Append(@, Event("fetch", SyncRegion)),
                        !.failed = IF client_result.raises THEN @ \cup {topic_arn} ELSE @]
    /\ UNCHANGED <<graphVars, call, pre, t_in, t_out>>

\* transformed_topics = transform_sns_topics(topics, topic_attributes, region)
SyncTransform ==
    /\ sync.op = "sync" /\ sync.pc = "fetch" /\ sync.ti > Len(sync.topics)
    /\ sync' = [sync EXCEPT
            !.transformed_topics = transform_sns_topics(sync.topics, sync.topic_attributes),
            !.pc = "load",
            !.events = Append(@, Event("transform", SyncRegion))]
    /\ UNCHANGED <<graphVars, call, pre, t_in, t_out>>

\* load_sns_topics(neo4j_session, transformed_topics, region, account, update_tag)
SyncLoad ==
    /\ sync.op = "sync" /\ sync.pc = "load"
    /\ LET g == load_sns_topics(Graph, accounts, version_string, sync.transformed_topics,
                                SyncRegion, sync.current_aws_account_id,
                                sync.update_tag, now)
       IN  /\ topics' = g.topics
           /\ rels' = g.rels
    /\ now' = now + 1
    /\ sync' = [sync EXCEPT !.pc = AfterLoad(sync.ri, sync.regions),
                            !.ri = @ + 1,
                            !.events = Append(@, Event("load", SyncRegion))]
    /\ UNCHANGED <<accounts, version_string, call, pre, t_in, t_out>>

\* a statement of load_sns_topics raises: the records before it are written,
\* nothing in sync_sns_topics catches the error
SyncLoadRaises ==
    /\ sync.op = "sync" /\ sync.pc = "load"
    /\ \E k \in 0..(Len(sync.transformed_topics) - 1) :
        LET g == load_sns_topics(Graph, accounts, version_string,
                                 SubSeq(sync.transformed_topics, 1, k),
                                 SyncRegion, sync.current_aws_account_id,
                                 sync.update_tag, now)
        IN  /\ topics' = g.topics
            /\ rels' = g.rels
    /\ now' = now + 1
    /\ sync' = [sync EXCEPT !.pc = "raised", !.raised_by = "load_sns_topics"]
    /\ UNCHANGED <<accounts, version_string, call, pre, t_in, t_out>>

\* the statement of cleanup_sns raises: nothing is deleted
SyncCleanupRaises ==
    /\ sync.op = "sync" /\ sync.pc = "cleanup"
    /\ sync' = [sync EXCEPT !.pc = "raised", !.raised_by = "cleanup_sns"]
    /\ UNCHANGED <<graphVars, call, pre, t_in, t_out>>

\* cleanup_sns(neo4j_session, common_job_parameters)
SyncCleanup ==
    /\ sync.op = "sync" /\ sync.pc = "cleanup"
    /\ \E g \in cleanup_sns(Graph, version_string, sync.common_job_parameters) :
        /\ topics' = g.topics
        /\ rels' = g.rels
    /\ now' = now + 1
    /\ sync' = [sync EXCEPT !.pc = "meta",
                            !.events = Append(@, Event("cleanup", ""))]
    /\ UNCHANGED <<accounts, version_string, call, pre, t_in, t_out>>

\* merge_module_sync_metadata(group_type='AWSAccount', group_id=account,
\* synced_type='AwsSnsTopic', update_tag=update_tag)
SyncMergeModuleSyncMetadata ==
    /\ sync.op = "sync" /\ sync.pc = "meta"
    /\ sync' = [sync EXCEPT
            !.synced = Append(@, [group_type |-> "AWSAccount",
                                  group_id |-> sync.current_aws_account_id,
                                  synced_type |-> "AwsSnsTopic",
                                  update_tag |-> sync.update_tag]),
            !.pc = "done",
            !.events = Append(@, Event("meta", ""))]
    /\ UNCHANGED <<graphVars, call, pre, t_in, t_out>>

NextSync ==
    \/ SyncGetSnsTopics
    \/ SyncGetSnsTopicsRaises
    \/ SyncGetTopicAttributes
    \/ SyncTransform
    \/ SyncLoad
    \/ SyncLoadRaises
    \/ SyncCleanup
    \/ SyncCleanupRaises
    \/ SyncMergeModuleSyncMetadata

SpecSync == InitSync /\ [][NextSync]_vars

(***************************************************************************)
(* Claims about one run of sync_sns_topics, under SpecSync.                *)
(***************************************************************************)
Flatten(qs) == UNION {Range(qs[j]) : j \in DOMAIN qs}

\* the run has listed region j and loaded it
RegionLoaded(j) ==
    /\ j \in DOMAIN sync.listings
    /\ \E e \in DOMAIN sync.events : sync.events[e] = Event("load", sync.regions[j])

\* the record of a topic whose attributes are empty
DefaultRecord(arn) ==
    [TopicArn |-> arn,
     TopicName |-> AfterLastColon(arn),
     DisplayName |-> "",
     Owner |-> "",
     SubscriptionsPending |-> 0,
     SubscriptionsConfirmed |-> 0,
     SubscriptionsDeleted |-> 0,
     DeliveryPolicy |-> "",
     EffectiveDeliveryPolicy |-> "",
     KmsMasterKeyId |-> ""]

\* the record of a topic whose attributes are those the service returned
FetchedRecord(arn) ==
    [TopicArn |-> arn,
     TopicName |-> AfterLastColon(arn),
     DisplayName |-> "Test Topic",
     Owner |-> "123456789012",
     SubscriptionsPending |-> 1,
     SubscriptionsConfirmed |-> 5,
     SubscriptionsDeleted |-> 10,
     DeliveryPolicy |-> "{\"http\": {}}",
     EffectiveDeliveryPolicy |-> "{\"http\": {\"defaultHealthyRetryPolicy\": {}}}",
     KmsMasterKeyId |-> "arn:aws:kms:key/1234abcd"]

\* the last event of the run is the load of region j
JustLoaded(j) ==
    /\ sync.events /= <<>>
    /\ sync.events[Len(sync.events)] = Event("load", sync.regions[j])

\* C8: a failing attribute fetch never raises out of the run; the topic is
\* transformed with empty attributes and upserted with the default field
\* values, the other topics of its region are upserted with their fetched
\* values, every later region is still listed and loaded, and the run that
\* meets no other error reaches the cleanup and the sync-metadata record.
C8_FetchFailureContained ==
    sync.op = "sync" =>
        /\ sync.raised_by /= "get_topic_attributes"
        /\ sync.pc = "raised" =>
            sync.raised_by \in {"get_sns_topics", "load_sns_topics", "cleanup_sns"}
        /\ \A a \in sync.failed : a \notin DOMAIN sync.topic_attributes
        /\ sync.pc = "load" =>
            \A i \in DOMAIN sync.topics :
                LET arn == sync.topics[i]["TopicArn"]
                IN  /\ i \in DOMAIN sync.transformed_topics
                    /\ sync.transformed_topics[i] =
                          (IF arn \in sync.failed THEN DefaultRecord(arn)
                                                  ELSE FetchedRecord(arn))
        /\ \A j \in DOMAIN sync.regions :
            JustLoaded(j) =>
                \A arn \in Range(sync.listings[j]) :
                    \E n \in DOMAIN topics :
                        /\ CarriesRecord(topics, n,
                               IF arn \in sync.failed THEN DefaultRecord(arn)
                                                      ELSE FetchedRecord(arn))
                        /\ HasProp(topics, n, "region", sync.regions[j])
                        /\ HasProp(topics, n, "lastupdated", sync.update_tag)
        /\ sync.pc = "done" =>
            /\ \A j \in DOMAIN sync.regions : RegionLoaded(j)
            /\ \E e \in DOMAIN sync.events : sync.events[e] = Event("cleanup", "")
            /\ Len(sync.synced) = sync.run
            /\ sync.synced[sync.run].update_tag = sync.update_tag

\* a finished run over two regions whose first region listed two topics, the
\* fetch failing for the first of them, and whose second region listed a
\* topic too
C8_Witness ==
    /\ sync.op = "sync" /\ sync.pc = "done"
    /\ Len(sync.regions) = 2
    /\ sync.listings[1] = <<Arn(1), Arn(2)>>
    /\ sync.failed = {Arn(1)}
    /\ sync.listings[2] /= <<>>
    /\ sync.synced /= <<>>

\* the events of the block of region j: its listing, one fetch per listed
\* topic, its transform, its load
RegionBlock(j) ==
    <<Event("list", sync.regions[j])>>
        \o [i \in 1..Len(sync.listings[j]) |-> Event("fetch", sync.regions[j])]
        \o <<Event("transform", sync.regions[j]), Event("load", sync.regions[j])>>

RECURSIVE RegionBlocks(_)
RegionBlocks(j) == IF j = 0 THEN <<>> ELSE RegionBlocks(j - 1) \o RegionBlock(j)

\* the events of a run that goes to its end, given what the regions listed
ExpectedEvents ==
    RegionBlocks(Len(sync.listings))
        \o (IF Len(sync.listings) = Len(sync.regions)
            THEN <<Event("cleanup", ""), Event("meta", "")>>
            ELSE <<>>)

CountOf(events, ev) == Cardinality({e \in DOMAIN events : events[e] = ev})

\* C10: the events of a run are, region by region in list order, list,
\* fetches, transform, load; then cleanup_sns once, after the load of the
\* last region; then the sync-metadata record once; a run that raised has
\* recorded no sync metadata.
C10_DriverOrdering ==
    sync.op = "sync" =>
        /\ Len(sync.events) <= Len(ExpectedEvents)
        /\ sync.events = SubSeq(ExpectedEvents, 1, Len(sync.events))
        /\ sync.pc = "done" => sync.events = ExpectedEvents
        /\ CountOf(sync.events, Event("cleanup", "")) <= 1
        /\ CountOf(sync.events, Event("meta", "")) <= 1
        /\ Len(sync.synced) = (sync.run - 1) + CountOf(sync.events, Event("meta", ""))
        /\ sync.pc = "raised" => CountOf(sync.events, Event("meta", "")) = 0

\* a finished run over two regions that both listed topics
C10_Witness ==
    /\ sync.op = "sync" /\ sync.pc = "done"
    /\ Len(sync.regions) = 2
    /\ Len(sync.listings[1]) = 2
    /\ Len(sync.listings[2]) = 1
    /\ sync.failed = {}
    /\ Len(sync.events) = 11

(***************************************************************************)
(* Sequential runs of sync_sns_topics for the same account and regions,    *)
(* each with the tag after the previous run's.                             *)
(***************************************************************************)
InitResync ==
    /\ InitStore({{"111"}})
    /\ \E update_tag \in {0, 1} :
        sync = SyncEntry(SubSeq(SyncRegionNames, 1, MaxRegions), "111", update_tag,
                         [UPDATE_TAG |-> update_tag, AWS_ID |-> "111"],
                         1, {}, <<>>)

\* the next call of sync_sns_topics, after the previous one returned
SyncAgain ==
    /\ sync.op = "sync" /\ sync.pc = "done" /\ sync.run < MaxRuns
    /\ sync' = SyncEntry(sync.regions, sync.current_aws_account_id,
                         sync.update_tag + 1,
                         [UPDATE_TAG |-> sync.common_job_parameters.UPDATE_TAG + 1,
                          AWS_ID |-> sync.common_job_parameters.AWS_ID],
                         sync.run + 1, Flatten(sync.listings), sync.synced)
    /\ UNCHANGED <<graphVars, call, pre, t_in, t_out>>

NextResync == NextSync \/ SyncAgain

SpecResync == InitResync /\ [][NextResync]_vars

\* the identifiers of the topic nodes of the graph
NodeIds == {topics[n]["id"] : n \in DOMAIN topics}

\* C9: after two complete runs with tags T and T+1, each cleaning up with
\* its own tag, the topic nodes are exactly those of the topics the second
\* run listed, each with lastupdated = T+1; a topic only the first run
\* listed has no node.
C9_SyncEndState ==
    (/\ sync.op = "sync" /\ sync.run = 2 /\ sync.pc = "done"
     /\ sync.common_job_parameters.UPDATE_TAG = sync.update_tag) =>
        /\ NodeIds = Flatten(sync.listings)
        /\ \A a \in sync.before \ Flatten(sync.listings) : NodesWithId(topics, a) = {}
        /\ \A a \in Flatten(sync.listings) :
            \E n \in NodesWithId(topics, a) :
                HasProp(topics, n, "lastupdated", sync.update_tag)

(***************************************************************************)
(* SpecMalformed: runs of sync_sns_topics, and direct calls of             *)
(* transform_sns_topics, on listings that may hold a raw topic without the *)
(* TopicArn key or an identifier without ':'.                              *)
(***************************************************************************)
\* a raw topic that lacks the identifier field
MalformedTopic == [Name |-> "orphan"]

\* topic['TopicArn'] raises KeyError
LacksTopicArn(topic) == "TopicArn" \notin DOMAIN topic

\* transform_sns_topics raising also on an identifier that has no ':'
TransformRaisesOnNoSeparator(tps) ==
    \E i \in DOMAIN tps :
        \/ LacksTopicArn(tps[i])
        \/ \A k \in DOMAIN tps[i]["TopicArn"] : tps[i]["TopicArn"][k] /= ":"

\* transform_sns_topics raises: some topic of the list lacks TopicArn
TransformRaises(tps) == \E i \in DOMAIN tps : LacksTopicArn(tps[i])

\* the listings of region j that hold a raw topic without TopicArn
MalformedListings(j) ==
    {<<MalformedTopic>>,
     <<[TopicArn |-> Arn(2 * j - 1)], MalformedTopic>>,
     <<MalformedTopic, [TopicArn |-> Arn(2 * j)]>>}

\* the identifiers a listing of raw topics carries
IdentifiersOf(tps) ==
    LET F[i \in 0..Len(tps)] ==
            IF i = 0 THEN <<>>
            ELSE IF LacksTopicArn(tps[i]) THEN F[i - 1]
                 ELSE Append(F[i - 1], tps[i]["TopicArn"])
    IN  F[Len(tps)]

InitMalformed ==
    /\ InitStore({{"111"}})
    /\ sync = SyncEntry(SubSeq(SyncRegionNames, 1, MaxRegions), "111", 1,
                        [UPDATE_TAG |-> 1, AWS_ID |-> "111"], 1, {}, <<>>)

\* get_sns_topics returns a listing with a raw topic that lacks TopicArn
SyncGetSnsTopicsMalformed ==
    /\ sync.op = "sync" /\ sync.pc = "list"
    /\ \E tps \in MalformedListings(sync.ri) :
        sync' = [sync EXCEPT !.topics = tps,
                             !.topic_attributes = EmptyDict,
                             !.ti = 1,
                             !.pc = "fetch",
                             !.events = Append(@, Event("list", SyncRegion)),
                             !.listings = Append(@, IdentifiersOf(tps))]
    /\ UNCHANGED <<graphVars, call, pre, t_in, t_out>>

\* topic_arn = topic['TopicArn'] in the fetch loop raises KeyError
SyncTopicKeyError ==
    /\ sync.op = "sync" /\ sync.pc = "fetch" /\ sync.ti <= Len(sync.topics)
    /\ LacksTopicArn(sync.topics[sync.ti])
    /\ sync' = [sync EXCEPT !.pc = "raised", !.raised_by = "sync_sns_topics"]
    /\ UNCHANGED <<graphVars, call, pre, t_in, t_out>>

\* the lists of raw topics transform_sns_topics is called with directly
RawTopicLists ==
    MalformedListings(1) \cup {RawTopics(q) : q \in RegionListings(1) \ {<<>>}}

\* a direct call of transform_sns_topics, before the run starts
TransformRawTopics ==
    /\ t_in = NoCall
    /\ sync.op = "sync" /\ sync.events = <<>> /\ sync.pc = "list"
    /\ \E tps \in RawTopicLists,
          attributes \in {EmptyDict, [a \in {Arn(1)} |-> FullAttributes(a)]} :
        /\ t_in' = [op |-> "transform", topics |-> tps, attributes |-> attributes,
                    returned |-> ~TransformRaises(tps),
                    raised |-> TransformRaises(tps)]
        /\ t_out' = IF TransformRaises(tps) THEN <<>>
                    ELSE transform_sns_topics(tps, attributes)
    /\ UNCHANGED <<graphVars, call, pre, sync>>

NextMalformed ==
    \/ NextSync
    \/ SyncGetSnsTopicsMalformed
    \/ SyncTopicKeyError
    \/ TransformRawTopics

SpecMalformed == InitMalformed /\ [][NextMalformed]_vars

HasSeparator(arn) == \E k \in DOMAIN arn : arn[k] = ":"

\* the run has a load event for the region it is in
CurrentRegionLoaded ==
    /\ sync.ri \in DOMAIN sync.regions
    /\ \E e \in DOMAIN sync.events : sync.events[e] = Event("load", SyncRegion)

\* C14, as the code has it: a raw topic that lacks the identifier field
\* makes transform_sns_topics raise, and in a run of sync_sns_topics makes
\* the fetch loop raise before the transform, so that the region is never
\* loaded; an identifier that has no ':' raises nowhere: its short name is the
\* whole identifier and its region is loaded.
C14_MissingIdentifierFaults ==
    /\ t_in.op = "transform" =>
        /\ t_in.raised = (\E i \in DOMAIN t_in.topics : "TopicArn" \notin DOMAIN t_in.topics[i])
        /\ t_in.returned = ~t_in.raised
        /\ t_in.returned =>
            /\ Len(t_out) = Len(t_in.topics)
            /\ \A i \in DOMAIN t_out :
                /\ t_out[i]["TopicArn"] = t_in.topics[i]["TopicArn"]
                /\ ~HasSeparator(t_out[i]["TopicArn"]) =>
                       t_out[i]["TopicName"] = t_out[i]["TopicArn"]
    /\ sync.op = "sync" =>
        /\ (\E i \in DOMAIN sync.topics : "TopicArn" \notin DOMAIN sync.topics[i]) =>
            /\ sync.pc \in {"fetch", "raised"}
            /\ ~CurrentRegionLoaded
            /\ sync.pc = "raised" => sync.raised_by = "sync_sns_topics"
        /\ sync.raised_by = "sync_sns_topics" =>
            /\ sync.pc = "raised"
            /\ "TopicArn" \notin DOMAIN sync.topics[sync.ti]
            /\ \A e \in DOMAIN sync.events :
                sync.events[e] \notin {Event("cleanup", ""), Event("meta", "")}
        /\ \A j \in DOMAIN sync.regions :
            JustLoaded(j) =>
                \A arn \in Range(sync.listings[j]) :
                    \E n \in NodesWithId(topics, arn) :
                        HasProp(topics, n, "name", AfterLastColon(arn))

\* a run that loaded a first region whose only topic has an identifier
\* without ':', the node named by the whole identifier, and then raised in
\* the second region on a raw topic without the identifier field, after a
\* direct call of transform_sns_topics on such a topic raised too
C14_Witness ==
    /\ t_in.op = "transform" /\ t_in.raised
    /\ sync.op = "sync" /\ sync.pc = "raised" /\ sync.raised_by = "sync_sns_topics"
    /\ sync.ri = 2
    /\ sync.listings[1] = <<Arn(2)>>
    /\ \E n \in NodesWithId(topics, Arn(2)) : HasProp(topics, n, "name", Arn(2))
    /\ sync.ti = 2

\* C14, as stated: a raw topic whose identifier has no ':', or that lacks the
\* identifier field, makes transform_sns_topics raise, and the region that
\* listed it is not loaded.
C14_MalformedIdentifierFaults ==
    /\ (t_in.op = "transform" /\
        \E i \in DOMAIN t_in.topics :
            \/ "TopicArn" \notin DOMAIN t_in.topics[i]
            \/ ~HasSeparator(t_in.topics[i]["TopicArn"]))
        => t_in.raised
    /\ sync.op = "sync" =>
        \A j \in DOMAIN sync.listings :
            (\E arn \in Range(sync.listings[j]) : ~HasSeparator(arn)) => ~RegionLoaded(j)

(***************************************************************************)
(* SpecSweep: up to two loads of new topics, then calls of cleanup_sns     *)
(* with one UPDATE_TAG and no load in between.                             *)
(***************************************************************************)
SweepArns == 2 * LegacyDeleteLimit + 1

\* the next k identifiers after the first `loaded`
NextArns(loaded, k) == [i \in 1..k |-> Arn(loaded + i)]

InitSweep ==
    /\ InitStore({{"111"}})
    /\ sync = NoCall

SweepLoad ==
    /\ call.op \in {"none", "filled"}
    /\ LET loads == IF call.op = "none" THEN 0 ELSE call.loads
           loaded == IF call.op = "none" THEN 0 ELSE call.loaded
       IN  /\ loads < 2
           /\ \E k \in 1..(SweepArns - loaded), update_tag \in UpdateTags :
                LET q == NextArns(loaded, k)
                    data == transform_sns_topics(RawTopics(q),
                                [a \in Range(q) |-> FullAttributes(a)])
                    g == load_sns_topics(Graph, accounts, version_string, data,
                                         "us-east-1", "111", update_tag, now)
                IN  /\ topics' = g.topics
                    /\ rels' = g.rels
                    /\ call' = [op |-> "filled", loads |-> loads + 1,
                                loaded |-> loaded + k]
    /\ now' = now + 1
    /\ pre' = Graph
    /\ UNCHANGED <<accounts, version_string, t_in, t_out, sync>>

\* one call of cleanup_sns; the first call chooses the UPDATE_TAG of all
SweepCleanup ==
    /\ call.op \in {"filled", "swept"}
    /\ call.op = "swept" => call.n < MaxSweeps
    /\ \E update_tag \in (IF call.op = "swept" THEN {call.tag} ELSE UpdateTags) :
        /\ \E g \in cleanup_sns(Graph, version_string,
                                [UPDATE_TAG |-> update_tag, AWS_ID |-> "111"]) :
            /\ topics' = g.topics
            /\ rels' = g.rels
        /\ call' = [op |-> "swept", tag |-> update_tag,
                    n |-> IF call.op = "swept" THEN call.n + 1 ELSE 1,
                    stale0 |-> IF call.op = "swept" THEN call.stale0
                               ELSE Cardinality(StaleNodes(topics, update_tag))]
    /\ now' = now + 1
    /\ pre' = Graph
    /\ UNCHANGED <<accounts, version_string, t_in, t_out, sync>>

NextSweep == SweepLoad \/ SweepCleanup

SpecSweep == InitSweep /\ [][NextSweep]_vars

\* the nodes of tp whose lastupdated is another tag than update_tag
TaggedOtherThan(tp, update_tag) ==
    {n \in DOMAIN tp : ~HasProp(tp, n, "lastupdated", update_tag)}

Swept == call.op = "swept"

\* C15: one call of cleanup_sns on the branch below 4.0 removes only nodes
\* whose lastupdated differs from UPDATE_TAG, at most LegacyDeleteLimit of
\* them, with their relationships and nothing else; when more than the limit
\* were stale the surplus is still in the graph after the call.
C15_LegacyBatchCap ==
    (Swept /\ IsLegacy) =>
        LET stale == TaggedOtherThan(pre.topics, call.tag)
            removed == DOMAIN pre.topics \ DOMAIN topics
        IN  /\ DOMAIN topics \subseteq DOMAIN pre.topics
            /\ removed \subseteq stale
            /\ Cardinality(removed) = Min({Cardinality(stale), LegacyDeleteLimit})
            /\ \A n \in DOMAIN topics : topics[n] = pre.topics[n]
            /\ rels = {r \in pre.rels : r.n \notin removed}
            /\ Cardinality(stale) > LegacyDeleteLimit =>
                Cardinality(TaggedOtherThan(topics, call.tag))
                    = Cardinality(stale) - LegacyDeleteLimit

\* a first call on the branch below 4.0 that found more stale nodes than the
\* limit, and a node with the UPDATE_TAG, and left stale nodes behind
C15_Witness ==
    /\ Swept /\ IsLegacy /\ call.n = 1
    /\ Cardinality(TaggedOtherThan(pre.topics, call.tag)) > LegacyDeleteLimit
    /\ \E n \in DOMAIN pre.topics : HasProp(pre.topics, n, "lastupdated", call.tag)
    /\ TaggedOtherThan(topics, call.tag) /= {}

\* the least number of batches of `limit` that hold k
Batches(k, limit) == (k + limit - 1) \div limit

\* C16: calls of cleanup_sns on the branch below 4.0 with one UPDATE_TAG and
\* no load in between: a call that finds stale nodes leaves fewer; after
\* ceil(stale / limit) calls none is left; a call that finds none changes
\* nothing.
C16_RepeatedCleanupConverges ==
    (Swept /\ IsLegacy) =>
        LET before == Cardinality(TaggedOtherThan(pre.topics, call.tag))
            after == Cardinality(TaggedOtherThan(topics, call.tag))
        IN  /\ before > 0 => after < before
            /\ before = 0 => Graph = pre
            /\ call.n >= Batches(call.stale0, LegacyDeleteLimit) => after = 0
            /\ call.n < Batches(call.stale0, LegacyDeleteLimit) => after > 0

\* the third call of a sweep that began with more than twice the limit of
\* stale nodes: it removes the last of them
C16_Witness ==
    /\ Swept /\ IsLegacy
    /\ call.stale0 > 2 * LegacyDeleteLimit
    /\ call.n = 3
    /\ TaggedOtherThan(pre.topics, call.tag) /= {}
    /\ TaggedOtherThan(topics, call.tag) = {}

(***************************************************************************)
(* SpecConcurrent: two runs of sync_sns_topics over one region, with       *)
(* different tags, on the same store.  A run's listing, fetches and        *)
(* transform do not touch the store, so a run is two steps on the store:   *)
(* its load_sns_topics and its cleanup_sns.  With serialized set, a run    *)
(* starts only when the other has not started or has finished.             *)
(***************************************************************************)
Runners == {1, 2}

\* update_tag and common_job_parameters['UPDATE_TAG'] of run i
RunTag(i) == i

ConcurrentEntry(serialized) ==
    [op |-> "concurrent",
     serialized |-> serialized,
     pc |-> [i \in Runners |-> "upsert"],
     listing |-> [i \in Runners |-> <<>>],
     events |-> <<>>]

InitConcurrent ==
    /\ InitStore({{"111"}})
    /\ \E serialized \in BOOLEAN : sync = ConcurrentEntry(serialized)

\* the caller's serialization of runs
RunMayStep(i) ==
    sync.serialized => \A j \in Runners \ {i} : sync.pc[j] /= "cleanup"

\* run i lists, fetches, transforms and calls load_sns_topics
ConcurrentUpsert ==
    /\ sync.op = "concurrent"
    /\ \E i \in Runners :
        /\ sync.pc[i] = "upsert"
        /\ RunMayStep(i)
        /\ \E q \in RegionListings(1) :
            LET data == transform_sns_topics(RawTopics(q),
                            [a \in Range(q) |-> FullAttributes(a)])
                g == load_sns_topics(Graph, accounts, version_string, data,
                                     SyncRegionNames[1], "111", RunTag(i), now)
            IN  /\ topics' = g.topics
                /\ rels' = g.rels
                /\ sync' = [sync EXCEPT !.pc[i] = "cleanup",
                                        !.listing[i] = q,
                                        !.events = Append(@, <<"load", i>>)]
    /\ now' = now + 1
    /\ UNCHANGED <<accounts, version_string, call, pre, t_in, t_out>>

\* run i calls cleanup_sns and returns
ConcurrentCleanup ==
    /\ sync.op = "concurrent"
    /\ \E i \in Runners :
        /\ sync.pc[i] = "cleanup"
        /\ \E g \in cleanup_sns(Graph, version_string,
                                [UPDATE_TAG |-> RunTag(i), AWS_ID |-> "111"]) :
            /\ topics' = g.topics
            /\ rels' = g.rels
        /\ sync' = [sync EXCEPT !.pc[i] = "done",
                                !.events = Append(@, <<"cleanup", i>>)]
    /\ now' = now + 1
    /\ UNCHANGED <<accounts, version_string, call, pre, t_in, t_out>>

NextConcurrent == ConcurrentUpsert \/ ConcurrentCleanup

SpecConcurrent == InitConcurrent /\ [][NextConcurrent]_vars

BothDone == sync.op = "concurrent" /\ \A i \in Runners : sync.pc[i] = "done"

\* the topics both runs listed
ObservedByBoth == Range(sync.listing[1]) \cap Range(sync.listing[2])

\* C17: when the two runs are serialized, after both have finished every
\* topic both listed has a node, and so has every topic the later run
\* listed; the state in which a topic both listed has no node is reached
\* only by interleaved runs (C17_Witness).
C17_SerializedRunsKeepObserved ==
    (BothDone /\ sync.serialized) =>
        /\ \A arn \in ObservedByBoth : NodesWithId(topics, arn) /= {}
        /\ \A arn \in Range(sync.listing[sync.events[Len(sync.events)][2]]) :
            NodesWithId(topics, arn) /= {}

\* interleaved runs: run 2 loads a topic run 1 also listed, run 1's
\* cleanup_sns then deletes the node run 2 has just written, and after both
\* runs have finished the topic has no node
C17_Witness ==
    /\ BothDone /\ ~sync.serialized
    /\ sync.events = << <<"load", 1>>, <<"load", 2>>, <<"cleanup", 1>>, <<"cleanup", 2>> >>
    /\ ObservedByBoth /= {}
    /\ \E arn \in ObservedByBoth : NodesWithId(topics, arn) = {}

\* C19: in every run of sync_sns_topics, whatever its arguments, the tag
\* cleanup_sns compares against is the tag the run's loads stamped, and after
\* the run's cleanup every topic the run loaded still has its node.
C19_RunKeepsOwnWrites ==
    (sync.op = "sync" /\ sync.pc \in {"meta", "done"}) =>
        /\ sync.common_job_parameters["UPDATE_TAG"] = sync.update_tag
        /\ \A arn \in Flatten(sync.listings) :
            \E n \in NodesWithId(topics, arn) :
                HasProp(topics, n, "lastupdated", sync.update_tag)

====
